---- MODULE Spec2Model ----
(***************************************************************************)
(* The VFS slot monitor (src/monitor.py) as a state machine.               *)
(*                                                                         *)
(* One MonitorService object, the asyncio event loop that runs it, the     *)
(* loop tasks that start() creates, and the bot handlers (src/bot.py) that *)
(* call start() and stop().  asyncio is single-threaded and cooperative:   *)
(* a task runs from one await to the next without interruption, runnable   *)
(* tasks are served first-in first-out, and a task blocked on I/O or on a  *)
(* timer becomes runnable when the I/O completes or the timer expires.     *)
(***************************************************************************)
EXTENDS Integers, Sequences, FiniteSets, TLC

----------------------------------------------------------------------------
\* Bounds of the model.
MaxTasks == 4      \* loop tasks ever created by start()
MaxCalls == 2      \* start()/stop() handler invocations in progress at once
MaxDates == 2      \* distinct calendar dates the site can show
MaxListed == 3     \* length of one get_available_slots() result

\* Program constants.
StopTimeout == 30            \* asyncio.wait_for(self._task, timeout=30)
CooldownSeconds == 600       \* timedelta(minutes=10)
CheckInterval == 120         \* CHECK_INTERVAL default
CheckIntervalVariation == 30 \* CHECK_INTERVAL_VARIATION default
MaxFactor == 5               \* min(5, 1 + consecutive_errors)

Tasks == 1..MaxTasks
Callers == (MaxTasks + 1)..(MaxTasks + MaxCalls)
Procs == Tasks \cup Callers

----------------------------------------------------------------------------
\* Slots and the dedup fingerprint.

\* Optional values: None, or <<v>>.
None == <<>>

\* Strings are sequences of characters, or of pieces that hold no "|".
Location == <<"M", "o", "s", "c", "o", "w", " ", "V", "F", "S">>
Service == <<"V", "i", "s", "a">>
DayNames == <<"01", "02", "03", "04", "05", "06", "07", "08", "09">>
\* The time of day of a datetime; fromisoformat("2026-03-15") gives midnight.
Clocks == <<"T00:00:00", "T09:00:00">>
DatesUpTo(n) == {<<"2026-03-", DayNames[d], Clocks[1]>> : d \in 1..n}
Dates == DatesUpTo(MaxDates)
StartTimes == {<<"10:30:00">>}

\* Slot(...) as get_available_slots builds it: location and service fixed,
\* no end_time, no notes.
Listed(d, s) ==
    [date |-> d, start_time |-> s, end_time |-> None, location |-> Location,
     service |-> Service, notes |-> None]
ListedSlots == {Listed(d, s) : d \in Dates, s \in StartTimes}

\* Slots with free text for location and service, with or without end_time
\* and notes, on any time of day.
Texts == {<<"a">>, <<"a", "|">>, <<"|", "a">>}
FreeDates(n) == {<<"2026-03-", DayNames[d], Clocks[c]>> : d \in 1..n, c \in DOMAIN Clocks}
FreeSlots(n) ==
    [date : FreeDates(n), start_time : StartTimes, end_time : {None, <<"11:00:00">>},
     location : Texts, service : Texts, notes : {None, <<"note">>}]

\* slot.date.date().isoformat(): the day, without the time of day.
IsoDate(dt) == SubSeq(dt, 1, 2)

\* A fingerprint that reads the notes as well.
SlotHashNoted(slot) ==
    IsoDate(slot.date) \o <<"|">> \o slot.start_time \o <<"|">> \o slot.location
        \o <<"|">> \o slot.service \o <<"|">> \o slot.notes

\* f"{date}|{start_time}|{location}|{service}" as a character sequence.
SlotHash(slot) ==
    IsoDate(slot.date) \o <<"|">> \o slot.start_time \o <<"|">> \o slot.location
        \o <<"|">> \o slot.service

SeqsUpTo(S, n) == UNION {[1..k -> S] : k \in 0..n}
SlotLists == SeqsUpTo(ListedSlots, MaxListed)

Range(f) == {f[i] : i \in DOMAIN f}

\* A filter that lets every candidate through.
FilterAll(slots, known) ==
    [new |-> slots, known |-> known \cup {SlotHash(slots[i]) : i \in DOMAIN slots}]

\* A filter that keeps only the fingerprints of the last list.
FilterReplacing(slots, known) ==
    [new |-> SelectSeq(slots, LAMBDA x : SlotHash(x) \notin known),
     known |-> {SlotHash(slots[i]) : i \in DOMAIN slots}]

\* A filter that compares each candidate with the store as it was before the
\* call only.
FilterStored(slots, known) ==
    [new |-> SelectSeq(slots, LAMBDA x : SlotHash(x) \notin known),
     known |-> known \cup {SlotHash(slots[i]) : i \in DOMAIN slots}]

\* _filter_new_slots: one pass; hashes are added to the set as it goes.
RECURSIVE FilterNew(_, _)
FilterNew(slots, known) ==
    IF slots = <<>> THEN [new |-> <<>>, known |-> known]
    ELSE LET h == SlotHash(Head(slots)) IN
         IF h \in known THEN FilterNew(Tail(slots), known)
         ELSE LET rest == FilterNew(Tail(slots), known \cup {h}) IN
              [new |-> <<Head(slots)>> \o rest.new, known |-> rest.known]

\* The cache file: missing, unparsable, {"hashes": [...]}, or JSON of another
\* shape: {"hashes": "..."} (a string where the list should be), or a value
\* that is no object or whose "hashes" cannot be iterated.
MissingFile == [kind |-> "missing", hashes |-> <<>>]
CorruptFile == [kind |-> "corrupt", hashes |-> <<>>]
JsonFile(hs) == [kind |-> "json", hashes |-> hs]
TextFile(str) == [kind |-> "text", hashes |-> str]
OtherFile == [kind |-> "other", hashes |-> <<>>]

\* A _load_cache that finds nothing whatever the file holds.
LoadNothing(file) == {}

\* _load_cache: set(data.get("hashes", [])) when the file exists and parses;
\* the set of a string is the set of its characters.  Raising inside the try
\* leaves the set empty.
LoadCache(file) ==
    CASE file.kind = "json" -> Range(file.hashes)
      [] file.kind = "text" -> {<<file.hashes[i]>> : i \in DOMAIN file.hashes}
      [] OTHER -> {}

\* list(set): the elements once each, in some order.
Listings(S) == {q \in [1..Cardinality(S) -> S] : Range(q) = S}

----------------------------------------------------------------------------
\* Pacing.

Max(a, b) == IF a >= b THEN a ELSE b
Min(a, b) == IF a <= b THEN a ELSE b

\* random.uniform(-variation, variation), sampled at its ends and centre.
Deltas(variation) == {0 - variation, 0, variation}

\* A delay without the floor of one second.
JitterUnclamped(base, variation, delta) ==
    IF variation <= 0 THEN base ELSE base + delta

\* utils.jitter_delay with the random draw made explicit.
JitterDelay(base, variation, delta) ==
    IF variation <= 0 THEN base ELSE Max(1, base + delta)

\* A factor that grows with every error.
FactorUncapped(errors) == IF errors # 0 THEN 1 + errors ELSE 1

\* The factor applied when consecutive_errors is non-zero.
Factor(errors) == IF errors # 0 THEN Min(MaxFactor, 1 + errors) ELSE 1

NextDelay(base, variation, delta, errors) ==
    JitterDelay(base, variation, delta) * Factor(errors)

\* datetime.utcnow().  Instants are kept relative to the present, so the
\* present is the origin; an instant that has passed is only known as Past.
now == 0
Past == 0 - 1

\* A cooldown that does not end with time.
CooldownForever(until, t) == until # None /\ (t < until[1] \/ TRUE)

\* A loop that never takes the cooldown for active.
CooldownIgnored(until, t) == until # None /\ t < until[1] /\ FALSE

\* self._captcha_until and datetime.utcnow() < self._captcha_until
CooldownActive(until, t) == until # None /\ t < until[1]

----------------------------------------------------------------------------
VARIABLES
    ready,               \* the event loop's FIFO of runnable processes
    pc,                  \* where each process is
    res,                 \* what the awaited call of a process returned
    timer,               \* deadline of a process's sleep / wait_for, or None
    cancel_req,          \* Task.cancel() was called on the task
    task,                \* MonitorService._task: 0 = None, else a task id
    stop_event,          \* MonitorService._stop_event
    state,               \* MonitorService._state
    known_hashes,        \* MonitorService._known_hashes
    captcha_until,       \* MonitorService._captcha_until
    consecutive_errors,  \* MonitorService._consecutive_errors
    cache_file,          \* slot_cache.json
    delay,               \* _run_loop's local delay
    session,             \* the VFSBrowser of each loop task
    shot_path,           \* _run_loop's local screenshot_path
    op,                  \* which handler a caller runs
    stop_target,         \* the task a stop() passed to wait_for
    timed_out,           \* the wait_for of this stop() hit its timeout
    notes,               \* notifications a process emitted (cycle / call)
    outcome,             \* what the site answered in a task's current cycle
    auth_failed,         \* login returned False to this task
    reported,            \* fingerprints sent in slot batches, or of the store
                         \* the monitor was constructed from
    call                 \* a single function applied on its own: name,
                         \* arguments, result

monVars == <<task, stop_event, state, known_hashes, captcha_until,
             consecutive_errors, cache_file>>
schedVars == <<ready, pc, res, timer, cancel_req>>
loopVars == <<delay, session, shot_path>>
stopVars == <<stop_target, timed_out>>
histVars == <<notes, outcome, auth_failed>>
auditVars == <<reported, call>>
vars == <<schedVars, monVars, loopVars, op, stopVars, histVars, auditVars>>

\* No function is applied on its own.
NoCall == [fn |-> "none", arg |-> <<>>, out |-> <<>>, done |-> TRUE]

\* Messages stored in state.last_error.
AuthMsg == "auth"               \* the credential-failure message
NoError == "None"

NoRes == [kind |-> "none", slots |-> <<>>]
Res(k) == [kind |-> k, slots |-> <<>>]

Finished == {"done", "cancelled", "failed"}
\* Task.done()
Done(t) == pc[t] \in Finished
Alive(t) == pc[t] \notin Finished \cup {"none"}

InReady(p) == \E i \in DOMAIN ready : ready[i] = p

\* Positions between two awaits: the process keeps running.
MicroPcs == {"top", "after_try", "close_call"}
Busy == ready # <<>> /\ pc[Head(ready)] \in MicroPcs

\* Process p is the one the event loop runs now, resuming at l.
At(p, l) == ready # <<>> /\ Head(ready) = p /\ pc[p] = l /\ ~cancel_req[p]

\* Awaits that end when the outside world answers.
SitePcs == {"login", "navigate", "slots"}
NotifyPcs == {"start_text", "stop_text", "stopped_text", "fatal_text",
              "slots_text", "captcha_text", "error_text"}
IoPcs == SitePcs \cup NotifyPcs \cup {"shot", "closing"}

\* The cache files a process can find at construction.
InitialFiles ==
    {MissingFile, CorruptFile} \cup {JsonFile(<<SlotHash(s)>>) : s \in ListedSlots}

\* The fields of a MonitorService just constructed, and of a loop that no
\* one has started: everything but the store and the cache file.
Constructed ==
    /\ ready = <<>>
    /\ pc = [p \in Procs |-> "none"]
    /\ res = [p \in Procs |-> NoRes]
    /\ timer = [p \in Procs |-> None]
    /\ cancel_req = [p \in Procs |-> FALSE]
    /\ task = 0
    /\ stop_event = FALSE
    /\ state = [is_running |-> FALSE, last_check_at |-> None,
                last_error |-> NoError, checks_count |-> 0,
                slots_found_total |-> 0]
    /\ captcha_until = None
    /\ consecutive_errors = 0
    /\ delay = [t \in Tasks |-> 0]
    /\ session = [t \in Tasks |-> "none"]
    /\ shot_path = [t \in Tasks |-> None]
    /\ op = [c \in Callers |-> "none"]
    /\ stop_target = [p \in Procs |-> 0]
    /\ timed_out = [p \in Procs |-> FALSE]
    /\ notes = [p \in Procs |-> <<>>]
    /\ outcome = [t \in Tasks |-> "idle"]
    /\ auth_failed = [t \in Tasks |-> FALSE]

\* MonitorService(...) was constructed; nothing has been started.
Init ==
    /\ cache_file \in InitialFiles
    /\ known_hashes = LoadCache(cache_file)
    /\ reported = LoadCache(cache_file)
    /\ call = NoCall
    /\ Constructed

----------------------------------------------------------------------------
\* The event loop and the outside world.

\* stop() calls parked in wait_for on task t and not yet runnable in q.
Waiters(t, q) ==
    {p \in Procs : /\ pc[p] = "stop_wait" /\ stop_target[p] = t /\ p # t
                   /\ ~\E i \in DOMAIN q : q[i] = p}

\* The run queue after task t finished: its waiters become runnable.
WakeQueues(q, t) == {q \o w : w \in Listings(Waiters(t, q))}

FirstFree == CHOOSE c \in Callers : pc[c] = "none" /\ \A d \in Callers : d < c => pc[d] # "none"
\* Tasks that exist or that a start() call not yet run may still create.
TasksClaimed ==
    Cardinality({t \in Tasks : pc[t] # "none"})
        + Cardinality({c \in Callers : pc[c] = "call" /\ op[c] = "start"})

\* The admin presses a button: aiogram runs the handler as a new task.
Call(o) ==
    /\ ~Busy
    /\ \E c \in Callers : pc[c] = "none"
    /\ pc' = [pc EXCEPT ![FirstFree] = "call"]
    /\ op' = [op EXCEPT ![FirstFree] = o]
    /\ ready' = Append(ready, FirstFree)
    /\ UNCHANGED <<res, timer, cancel_req, monVars, loopVars, stopVars, histVars>>
    /\ UNCHANGED auditVars

\* What the awaited call of p can answer.
Outcomes(p) ==
    CASE pc[p] = "login" -> {Res("true"), Res("false"), Res("captcha"), Res("error")}
      [] pc[p] = "navigate" -> {Res("ok"), Res("captcha"), Res("error")}
      [] pc[p] = "slots" -> {[kind |-> "ok", slots |-> l] : l \in SlotLists}
                                \cup {Res("captcha"), Res("error")}
      [] pc[p] = "shot" -> {Res("ok"), Res("error")}
      [] OTHER -> {Res("ok")}

\* What a site answer means for the cycle, seen from outside the monitor.
CycleOutcome(t, r) ==
    CASE r.kind = "false" -> "fatal"
      [] r.kind = "captcha" -> "captcha"
      [] r.kind = "error" -> "error"
      [] r.kind = "ok" /\ pc[t] = "slots" ->
            IF \E i \in DOMAIN r.slots : SlotHash(r.slots[i]) \notin known_hashes
            THEN "new" ELSE "nonew"
      [] OTHER -> outcome[t]

\* The call a process awaits completes; the process becomes runnable.
IoReturn(p, r) ==
    /\ ~Busy
    /\ pc[p] \in IoPcs
    /\ ~InReady(p)
    /\ r \in Outcomes(p)
    /\ res' = [res EXCEPT ![p] = IF pc[p] \in SitePcs \cup {"shot"} THEN r ELSE NoRes]
    /\ ready' = Append(ready, p)
    /\ IF p \in Tasks /\ pc[p] \in SitePcs
       THEN /\ outcome' = [outcome EXCEPT ![p] = CycleOutcome(p, r)]
            /\ auth_failed' = [auth_failed EXCEPT ![p] = @ \/ r.kind = "false"]
       ELSE UNCHANGED <<outcome, auth_failed>>
    /\ UNCHANGED <<pc, timer, cancel_req, monVars, loopVars, op, stopVars, notes>>
    /\ UNCHANGED auditVars

\* A deadline has been reached.
Due(x) == x # None /\ x[1] <= now

\* The instants still ahead.
Deadlines ==
    {timer[p][1] : p \in {q \in Procs : timer[q] # None /\ ~Due(timer[q])}}
        \cup (IF CooldownActive(captcha_until, now) THEN {captcha_until[1]} ELSE {})

\* Instant x seen d seconds later.
Later(x, d) == IF x = None THEN None ELSE <<IF x[1] - d < now THEN Past ELSE x[1] - d>>

\* Time passes, up to the next deadline, while the event loop has nothing to
\* run.
Tick ==
    /\ ready = <<>>
    /\ \A p \in Procs : ~Due(timer[p])
    /\ Deadlines # {}
    /\ LET d == CHOOSE d \in Deadlines : \A e \in Deadlines : d <= e
       IN /\ timer' = [p \in Procs |-> Later(timer[p], d)]
          /\ captcha_until' = Later(captcha_until, d)
          /\ state' = [state EXCEPT !.last_check_at = Later(@, d)]
    /\ UNCHANGED <<ready, pc, res, cancel_req, task, stop_event, known_hashes,
                   consecutive_errors, cache_file, loopVars, op, stopVars, histVars>>
    /\ UNCHANGED auditVars

\* asyncio.sleep(d) is over.
SleepOver(p) ==
    /\ ~Busy
    /\ pc[p] \in {"sleep", "cooldown_sleep"}
    /\ Due(timer[p])
    /\ timer' = [timer EXCEPT ![p] = None]
    /\ ready' = Append(ready, p)
    /\ UNCHANGED <<pc, res, cancel_req, monVars, loopVars, op, stopVars, histVars>>
    /\ UNCHANGED auditVars

\* wait_for's timeout expires: it cancels the awaited task and keeps
\* waiting for it to end.  A task that finished in the meantime is left alone.
WaitTimeout(p) ==
    /\ ~Busy
    /\ pc[p] = "stop_wait"
    /\ Due(timer[p])
    /\ timer' = [timer EXCEPT ![p] = None]
    /\ IF Alive(stop_target[p])
       THEN /\ timed_out' = [timed_out EXCEPT ![p] = TRUE]
            /\ cancel_req' = [cancel_req EXCEPT ![stop_target[p]] = TRUE]
            /\ ready' = IF InReady(stop_target[p]) THEN ready
                        ELSE Append(ready, stop_target[p])
       ELSE UNCHANGED <<timed_out, cancel_req, ready>>
    /\ UNCHANGED <<pc, res, monVars, loopVars, op, stop_target, histVars>>
    /\ UNCHANGED auditVars

\* CancelledError is thrown into task t at the await it is parked on.  No
\* handler of _run_loop catches it (except Exception does not): the task
\* ends cancelled, without reaching browser.close().  A task parked in its
\* own stop() on another task passes the cancellation on to that task; if
\* that task has already ended normally, wait_for may return its result
\* instead (asyncio before 3.12).
CancelDelivered(t) ==
    /\ ready # <<>> /\ Head(ready) = t /\ cancel_req[t]
    /\ LET u == stop_target[t]
           other == pc[t] = "stop_wait" /\ u # t
       IN \/ /\ pc' = [pc EXCEPT ![t] = "cancelled"]
             /\ timer' = [timer EXCEPT ![t] = None]
             /\ IF other /\ Alive(u)
                THEN /\ cancel_req' = [cancel_req EXCEPT ![t] = FALSE, ![u] = TRUE]
                     /\ \E q \in WakeQueues(Tail(ready), t) :
                            ready' = IF \E i \in DOMAIN q : q[i] = u THEN q ELSE Append(q, u)
                ELSE /\ cancel_req' = [cancel_req EXCEPT ![t] = FALSE]
                     /\ ready' \in WakeQueues(Tail(ready), t)
          \/ /\ other /\ pc[u] = "done"
             /\ cancel_req' = [cancel_req EXCEPT ![t] = FALSE]
             /\ UNCHANGED <<pc, timer, ready>>
    /\ UNCHANGED <<res, monVars, loopVars, op, stopVars, histVars>>
    /\ UNCHANGED auditVars

----------------------------------------------------------------------------
\* start() and stop(), as run by a bot handler or by the loop task itself.

Note(k, a) == [kind |-> k, arg |-> a]
Emit(p, k, a) == notes' = [notes EXCEPT ![p] = Append(@, Note(k, a))]

\* The streak left as it was.
ErrorStreakKept(n) == n

\* self._consecutive_errors += 1
ErrorStreak(n) == n + 1

\* The except Exception handler of _run_loop, up to its await of on_text.
UnexpectedError(t, msg) ==
    /\ state' = [state EXCEPT !.last_error = msg]
    /\ consecutive_errors' = ErrorStreak(consecutive_errors)
    /\ Emit(t, "error", <<consecutive_errors'>>)
    /\ pc' = [pc EXCEPT ![t] = "error_text"]
    /\ ready' = Tail(ready)

\* The handler of caller c is over (start()/stop() returned or raised): the
\* handler task is gone.
Leave(c) ==
    /\ pc' = [pc EXCEPT ![c] = "none"]
    /\ op' = [op EXCEPT ![c] = "none"]
    /\ notes' = [notes EXCEPT ![c] = <<>>]
    /\ stop_target' = [stop_target EXCEPT ![c] = 0]
    /\ timed_out' = [timed_out EXCEPT ![c] = FALSE]

\* stop() past its first check: set the event and announce.
StopEntry(p) ==
    /\ stop_event' = TRUE
    /\ Emit(p, "stopping", <<>>)
    /\ pc' = [pc EXCEPT ![p] = "stop_text"]
    /\ ready' = Tail(ready)

\* on_start_monitoring -> MonitorService.start
StartCall(c) ==
    /\ At(c, "call") /\ op[c] = "start"
    /\ IF task # 0 /\ ~Done(task)
       THEN /\ Leave(c)
            /\ ready' = Tail(ready)
            /\ UNCHANGED <<task, stop_event>>
       ELSE LET n == CHOOSE t \in Tasks : pc[t] = "none" /\ \A u \in Tasks : u < t => pc[u] # "none"
            IN /\ stop_event' = FALSE
               /\ task' = n
               /\ pc' = [pc EXCEPT ![n] = "created", ![c] = "start_text"]
               /\ ready' = Append(Tail(ready), n)
               /\ Emit(c, "started", <<>>)
               /\ UNCHANGED <<op, stopVars>>
    /\ UNCHANGED <<res, timer, cancel_req, state, known_hashes, captcha_until,
                   consecutive_errors, cache_file, loopVars, outcome, auth_failed>>
    /\ UNCHANGED auditVars

StartTextReturned(c) ==
    /\ At(c, "start_text")
    /\ Leave(c)
    /\ ready' = Tail(ready)
    /\ UNCHANGED <<res, timer, cancel_req, monVars, loopVars, outcome, auth_failed>>
    /\ UNCHANGED auditVars

\* on_stop_monitoring -> MonitorService.stop, to its first await
StopCall(c) ==
    /\ At(c, "call") /\ op[c] = "stop"
    /\ IF task = 0
       THEN /\ Leave(c)
            /\ ready' = Tail(ready)
            /\ UNCHANGED stop_event
       ELSE /\ StopEntry(c)
            /\ UNCHANGED <<op, stopVars>>
    /\ UNCHANGED <<res, timer, cancel_req, task, state, known_hashes,
                   captcha_until, consecutive_errors, cache_file, loopVars,
                   outcome, auth_failed>>
    /\ UNCHANGED auditVars

\* stop() after "stopping" was sent: asyncio.wait_for(self._task, timeout=30).
\* self._task is read now.  None is no awaitable (TypeError).  The running
\* task itself cannot be joined: asyncio 3.12 raises RuntimeError at once,
\* earlier versions park the task until the timeout cancels it.
StopTextReturned(p) ==
    /\ At(p, "stop_text")
    /\ IF task = 0
       THEN /\ IF p \in Tasks
               THEN /\ UnexpectedError(p, "TypeError")
                    /\ UNCHANGED <<op, stopVars>>
               ELSE /\ Leave(p)
                    /\ ready' = Tail(ready)
                    /\ UNCHANGED <<state, consecutive_errors>>
            /\ UNCHANGED timer
       ELSE \/ /\ task = p
               /\ UnexpectedError(p, "RuntimeError")
               /\ UNCHANGED <<stop_target, timer, op, timed_out>>
            \/ /\ stop_target' = [stop_target EXCEPT ![p] = task]
               /\ timer' = [timer EXCEPT ![p] = <<now + StopTimeout>>]
               /\ pc' = [pc EXCEPT ![p] = "stop_wait"]
               /\ ready' = IF Done(task) THEN Append(Tail(ready), p) ELSE Tail(ready)
               /\ UNCHANGED <<state, consecutive_errors, notes, op, timed_out>>
    /\ UNCHANGED <<res, cancel_req, task, stop_event, known_hashes, captcha_until,
                   cache_file, loopVars, outcome, auth_failed>>
    /\ UNCHANGED auditVars

\* wait_for is over.  After its own timeout, or when the task returned, stop()
\* goes on; a task that ended cancelled or with an exception makes wait_for,
\* and so stop(), raise that instead.
StopWaitResumed(p) ==
    /\ At(p, "stop_wait")
    /\ Done(stop_target[p])
    /\ timer' = [timer EXCEPT ![p] = None]
    /\ IF timed_out[p] \/ pc[stop_target[p]] = "done"
       THEN /\ task' = 0
            /\ state' = [state EXCEPT !.is_running = FALSE]
            /\ Emit(p, "stopped", <<>>)
            /\ pc' = [pc EXCEPT ![p] = "stopped_text"]
            /\ ready' = Tail(ready)
            /\ UNCHANGED <<consecutive_errors, op, stopVars>>
       ELSE /\ task' = task
            /\ IF p \in Callers
               THEN /\ Leave(p)
                    /\ ready' = Tail(ready)
                    /\ UNCHANGED <<state, consecutive_errors>>
               ELSE /\ IF pc[stop_target[p]] = "cancelled"
                       THEN /\ pc' = [pc EXCEPT ![p] = "cancelled"]
                            /\ ready' \in WakeQueues(Tail(ready), p)
                            /\ UNCHANGED <<state, consecutive_errors, notes>>
                       ELSE UnexpectedError(p, "OSError")
                    /\ UNCHANGED <<op, stopVars>>
    /\ UNCHANGED <<res, cancel_req, stop_event, known_hashes, captcha_until,
                   cache_file, loopVars, outcome, auth_failed>>
    /\ UNCHANGED auditVars

\* stop() returns after "stopped" was sent; in the loop task, break follows.
StoppedTextReturned(p) ==
    /\ At(p, "stopped_text")
    /\ IF p \in Tasks
       THEN /\ pc' = [pc EXCEPT ![p] = "close_call"]
            /\ ready' = ready
            /\ UNCHANGED <<op, stopVars, notes>>
       ELSE /\ Leave(p)
            /\ ready' = Tail(ready)
    /\ UNCHANGED <<res, timer, cancel_req, monVars, loopVars, outcome, auth_failed>>
    /\ UNCHANGED auditVars

----------------------------------------------------------------------------
\* _run_loop, one action per stretch between two awaits.

\* A task ends: Task.done() holds from now on and its waiters are woken.
Finish(t, how) ==
    /\ pc' = [pc EXCEPT ![t] = how]
    /\ ready' \in WakeQueues(Tail(ready), t)

\* A first run that also zeroes the counters of the state.
LoopStartFresh(t) ==
    /\ At(t, "created")
    /\ state' = [state EXCEPT !.is_running = TRUE, !.last_error = NoError,
                              !.checks_count = 0, !.slots_found_total = 0]
    /\ consecutive_errors' = 0
    /\ session' = [session EXCEPT ![t] = "open"]
    /\ pc' = [pc EXCEPT ![t] = "top"]
    /\ UNCHANGED <<ready, res, timer, cancel_req, task, stop_event, known_hashes,
                   captcha_until, cache_file, delay, shot_path, op, stopVars, histVars>>
    /\ UNCHANGED auditVars

\* Lines 112-116: the first run of the task.
LoopStart(t) ==
    /\ At(t, "created")
    /\ state' = [state EXCEPT !.is_running = TRUE, !.last_error = NoError]
    /\ consecutive_errors' = 0
    /\ session' = [session EXCEPT ![t] = "open"]
    /\ pc' = [pc EXCEPT ![t] = "top"]
    /\ UNCHANGED <<ready, res, timer, cancel_req, task, stop_event, known_hashes,
                   captcha_until, cache_file, delay, shot_path, op, stopVars, histVars>>
    /\ UNCHANGED auditVars

\* Lines 118-143: the while test, the delay, the cooldown test, and the
\* start of a check up to the await of browser.login.
LoopTop(t, delta) ==
    /\ At(t, "top")
    /\ delta \in Deltas(CheckIntervalVariation)
    /\ IF stop_event
       THEN /\ pc' = [pc EXCEPT ![t] = "close_call"]
            /\ UNCHANGED <<ready, timer, delay, state, notes, outcome>>
       ELSE LET d == NextDelay(CheckInterval, CheckIntervalVariation, delta,
                               consecutive_errors)
            IN /\ delay' = [delay EXCEPT ![t] = d]
               /\ ready' = Tail(ready)
               /\ IF CooldownActive(captcha_until, now)
                  THEN /\ timer' = [timer EXCEPT ![t] = <<now + Min(d, captcha_until[1] - now)>>]
                       /\ pc' = [pc EXCEPT ![t] = "cooldown_sleep"]
                       /\ UNCHANGED <<state, notes, outcome>>
                  ELSE /\ state' = [state EXCEPT !.checks_count = @ + 1,
                                                 !.last_check_at = <<now>>]
                       /\ pc' = [pc EXCEPT ![t] = "login"]
                       /\ notes' = [notes EXCEPT ![t] = <<>>]
                       /\ outcome' = [outcome EXCEPT ![t] = "pending"]
                       /\ UNCHANGED timer
    /\ UNCHANGED <<res, cancel_req, task, stop_event, known_hashes, captcha_until,
                   consecutive_errors, cache_file, session, shot_path, op, stopVars,
                   auth_failed>>
    /\ UNCHANGED auditVars

\* if not ok
LoginFailed(r) == r.kind = "false"

\* Lines 140-153: login returned a value.
LoopLoginReturned(t) ==
    /\ At(t, "login") /\ res[t].kind \in {"true", "false"}
    /\ ready' = Tail(ready)
    /\ IF LoginFailed(res[t])
       THEN /\ state' = [state EXCEPT !.last_error = AuthMsg]
            /\ Emit(t, "fatal", <<>>)
            /\ pc' = [pc EXCEPT ![t] = "fatal_text"]
       ELSE /\ pc' = [pc EXCEPT ![t] = "navigate"]
            /\ UNCHANGED <<state, notes>>
    /\ res' = [res EXCEPT ![t] = NoRes]
    /\ UNCHANGED <<timer, cancel_req, task, stop_event, known_hashes,
                   captcha_until, consecutive_errors, cache_file, loopVars, op,
                   stopVars, outcome, auth_failed>>
    /\ UNCHANGED auditVars

\* Lines 148-151: the fatal text was sent; await self.stop(), then break.
LoopFatalTextReturned(t) ==
    /\ At(t, "fatal_text")
    /\ IF task = 0
       THEN /\ pc' = [pc EXCEPT ![t] = "close_call"]
            /\ UNCHANGED <<ready, stop_event, notes>>
       ELSE StopEntry(t)
    /\ UNCHANGED <<res, timer, cancel_req, task, state, known_hashes,
                   captcha_until, consecutive_errors, cache_file, loopVars, op,
                   stopVars, outcome, auth_failed>>
    /\ UNCHANGED auditVars

\* Lines 153-154
LoopNavigateReturned(t) ==
    /\ At(t, "navigate") /\ res[t].kind = "ok"
    /\ pc' = [pc EXCEPT ![t] = "slots"]
    /\ ready' = Tail(ready)
    /\ res' = [res EXCEPT ![t] = NoRes]
    /\ UNCHANGED <<timer, cancel_req, monVars, loopVars, op, stopVars, histVars>>
    /\ UNCHANGED auditVars

\* Lines 154-165: the slots came back; filter, count, notify.
LoopSlotsReturned(t) ==
    /\ At(t, "slots") /\ res[t].kind = "ok"
    /\ LET f == FilterNew(res[t].slots, known_hashes)
       IN /\ known_hashes' = f.known
          /\ reported' = reported \cup {SlotHash(f.new[i]) : i \in DOMAIN f.new}
          /\ IF f.new # <<>>
             THEN /\ state' = [state EXCEPT !.slots_found_total = @ + Len(f.new)]
                  /\ Emit(t, "slots", f.new)
                  /\ pc' = [pc EXCEPT ![t] = "slots_text"]
                  /\ ready' = Tail(ready)
                  /\ UNCHANGED consecutive_errors
             ELSE /\ state' = [state EXCEPT !.last_error = NoError]
                  /\ consecutive_errors' = 0
                  /\ pc' = [pc EXCEPT ![t] = "after_try"]
                  /\ UNCHANGED <<ready, notes>>
    /\ res' = [res EXCEPT ![t] = NoRes]
    /\ UNCHANGED <<timer, cancel_req, task, stop_event, captcha_until,
                   cache_file, loopVars, op, stopVars, outcome, auth_failed>>
    /\ UNCHANGED call

\* _save_cache: the whole set, in some order; a failure is swallowed and
\* leaves the old file or a broken one.
Saved(known) == {JsonFile(l) : l \in Listings(known)}
SaveCache(known, file) == Saved(known) \cup {file, CorruptFile}

\* Lines 159-165: on_slots returned; save the cache, reset the error state.
LoopSlotsTextReturned(t) ==
    /\ At(t, "slots_text")
    /\ cache_file' \in SaveCache(known_hashes, cache_file)
    /\ state' = [state EXCEPT !.last_error = NoError]
    /\ consecutive_errors' = 0
    /\ pc' = [pc EXCEPT ![t] = "after_try"]
    /\ UNCHANGED <<ready, res, timer, cancel_req, task, stop_event, known_hashes,
                   captcha_until, loopVars, op, stopVars, histVars>>
    /\ UNCHANGED auditVars

\* Lines 166-173 and 183-190: a site call raised.  CaptchaDetected: make the
\* logs directory (outside any try: an OSError leaves the handler and the
\* loop), then await the screenshot.  Anything else: the error handler.
LoopSiteRaised(t, mkdir_ok) ==
    /\ \E l \in SitePcs : At(t, l)
    /\ res[t].kind \in {"captcha", "error"}
    /\ IF res[t].kind = "captcha"
       THEN /\ IF mkdir_ok
               THEN /\ shot_path' = [shot_path EXCEPT ![t] = <<"captcha", t>>]
                    /\ pc' = [pc EXCEPT ![t] = "shot"]
                    /\ ready' = Tail(ready)
               ELSE /\ Finish(t, "failed")
                    /\ UNCHANGED shot_path
            /\ UNCHANGED <<state, consecutive_errors, notes>>
       ELSE /\ UnexpectedError(t, "transient")
            /\ UNCHANGED shot_path
    /\ res' = [res EXCEPT ![t] = NoRes]
    /\ UNCHANGED <<timer, cancel_req, task, stop_event, known_hashes,
                   captcha_until, cache_file, delay, session, op, stopVars,
                   outcome, auth_failed>>
    /\ UNCHANGED auditVars

\* Lines 172-182: the screenshot was taken or failed (swallowed); set the
\* cooldown and send the alert with the path.
LoopShotReturned(t) ==
    /\ At(t, "shot")
    /\ captcha_until' = <<now + CooldownSeconds>>
    /\ Emit(t, "captcha", <<shot_path[t]>>)
    /\ pc' = [pc EXCEPT ![t] = "captcha_text"]
    /\ ready' = Tail(ready)
    /\ res' = [res EXCEPT ![t] = NoRes]
    /\ UNCHANGED <<timer, cancel_req, task, stop_event, state, known_hashes,
                   consecutive_errors, cache_file, loopVars, op, stopVars,
                   outcome, auth_failed>>
    /\ UNCHANGED auditVars

\* on_captcha / on_text of a handler returned: the try statement is over.
LoopHandlerDone(t) ==
    /\ \E l \in {"captcha_text", "error_text"} : At(t, l)
    /\ pc' = [pc EXCEPT ![t] = "after_try"]
    /\ UNCHANGED <<ready, res, timer, cancel_req, monVars, loopVars, op, stopVars,
                   histVars>>
    /\ UNCHANGED auditVars

\* Lines 192-194
LoopAfterTry(t) ==
    /\ At(t, "after_try")
    /\ IF stop_event
       THEN /\ pc' = [pc EXCEPT ![t] = "close_call"]
            /\ UNCHANGED <<ready, timer>>
       ELSE /\ timer' = [timer EXCEPT ![t] = <<now + delay[t]>>]
            /\ pc' = [pc EXCEPT ![t] = "sleep"]
            /\ ready' = Tail(ready)
    /\ UNCHANGED <<res, cancel_req, monVars, loopVars, op, stopVars, histVars>>
    /\ UNCHANGED auditVars

\* A sleep ended: back to the while test (after the cooldown sleep: continue).
LoopSleepWoken(t) ==
    /\ \E l \in {"sleep", "cooldown_sleep"} : At(t, l)
    /\ pc' = [pc EXCEPT ![t] = "top"]
    /\ UNCHANGED <<ready, res, timer, cancel_req, monVars, loopVars, op, stopVars,
                   histVars>>
    /\ UNCHANGED auditVars

\* Line 196: await browser.close()
LoopCloseCall(t) ==
    /\ At(t, "close_call")
    /\ pc' = [pc EXCEPT ![t] = "closing"]
    /\ ready' = Tail(ready)
    /\ UNCHANGED <<res, timer, cancel_req, monVars, loopVars, op, stopVars, histVars>>
    /\ UNCHANGED auditVars

\* browser.close() returned: the coroutine returns.
LoopClosed(t) ==
    /\ At(t, "closing")
    /\ session' = [session EXCEPT ![t] = "released"]
    /\ Finish(t, "done")
    /\ UNCHANGED <<res, timer, cancel_req, monVars, delay, shot_path, op, stopVars,
                   histVars>>
    /\ UNCHANGED auditVars

----------------------------------------------------------------------------
\* Every specification bounds the tasks start() may create and the checks
\* the loops may begin.
TasksLeft(n) == TasksClaimed < n
ChecksWithin(n) == state'.checks_count <= n

\* One handler at a time: the admin waits for the bot's answer before the
\* next press.  The site may answer anything.  The random draw of the delay
\* is taken at its lower end, where a cooldown is not a whole number of
\* delays.
SeqTasks == 2
SeqChecks == 2
SeqDays == 1
SeqListed == 1
Jitter == {0 - CheckIntervalVariation}

SeqSlots == {Listed(d, s) : d \in DatesUpTo(SeqDays), s \in StartTimes}
SeqFiles == {MissingFile, CorruptFile} \cup {JsonFile(<<SlotHash(s)>>) : s \in SeqSlots}

SeqAnswers(p) ==
    IF pc[p] = "slots"
    THEN {[kind |-> "ok", slots |-> l] : l \in SeqsUpTo(SeqSlots, SeqListed)}
            \cup {Res("captcha"), Res("error")}
    ELSE Outcomes(p)

InitSeq == Init /\ cache_file \in SeqFiles

Press(o) ==
    /\ \A c \in Callers : pc[c] = "none"
    /\ o = "start" => TasksLeft(SeqTasks)
    /\ Call(o)

Next ==
    \/ \E o \in {"start", "stop"} : Press(o)
    \/ \E p \in Procs : \E r \in SeqAnswers(p) : IoReturn(p, r)
    \/ Tick
    \/ \E p \in Procs : SleepOver(p)
    \/ \E p \in Procs : WaitTimeout(p)
    \/ \E t \in Tasks : CancelDelivered(t)
    \/ \E c \in Callers : StartCall(c)
    \/ \E c \in Callers : StartTextReturned(c)
    \/ \E c \in Callers : StopCall(c)
    \/ \E p \in Procs : StopTextReturned(p)
    \/ \E p \in Procs : StopWaitResumed(p)
    \/ \E p \in Procs : StoppedTextReturned(p)
    \/ \E t \in Tasks : LoopStart(t)
    \/ \E t \in Tasks : \E delta \in Jitter : LoopTop(t, delta) /\ ChecksWithin(SeqChecks)
    \/ \E t \in Tasks : LoopLoginReturned(t)
    \/ \E t \in Tasks : LoopFatalTextReturned(t)
    \/ \E t \in Tasks : LoopNavigateReturned(t)
    \/ \E t \in Tasks : LoopSlotsReturned(t)
    \/ \E t \in Tasks : LoopSlotsTextReturned(t)
    \/ \E t \in Tasks : \E mkdir_ok \in BOOLEAN : LoopSiteRaised(t, mkdir_ok)
    \/ \E t \in Tasks : LoopShotReturned(t)
    \/ \E t \in Tasks : LoopHandlerDone(t)
    \/ \E t \in Tasks : LoopAfterTry(t)
    \/ \E t \in Tasks : LoopSleepWoken(t)
    \/ \E t \in Tasks : LoopCloseCall(t)
    \/ \E t \in Tasks : LoopClosed(t)

Spec == InitSeq /\ [][Next]_vars

----------------------------------------------------------------------------
\* Concurrent handlers: a press is served while an earlier handler is still
\* running.  At most one start() and one stop() are in progress.
InFlight(o) == \E c \in Callers : op[c] = o

\* The admin presses Stop during the first run only; the site answers every
\* call, with a captcha page at login at worst.
RaceTasks == 3
RaceChecks == 2

RacePress(o) ==
    /\ ~InFlight(o)
    /\ o = "start" => TasksLeft(RaceTasks)
    /\ o = "stop" => ~Done(1) /\ pc[2] = "none"
    /\ Call(o)

RaceAnswers(p) ==
    CASE pc[p] = "login" -> {Res("true"), Res("captcha")}
      [] pc[p] = "slots" -> {[kind |-> "ok", slots |-> <<>>]}
      [] OTHER -> {Res("ok")}

InitRace == Init /\ cache_file = MissingFile

NextRace ==
    \/ \E o \in {"start", "stop"} : RacePress(o)
    \/ \E p \in Procs : \E r \in RaceAnswers(p) : IoReturn(p, r)
    \/ Tick
    \/ \E p \in Procs : SleepOver(p)
    \/ \E p \in Procs : WaitTimeout(p)
    \/ \E t \in Tasks : CancelDelivered(t)
    \/ \E c \in Callers : StartCall(c)
    \/ \E c \in Callers : StartTextReturned(c)
    \/ \E c \in Callers : StopCall(c)
    \/ \E p \in Procs : StopTextReturned(p)
    \/ \E p \in Procs : StopWaitResumed(p)
    \/ \E p \in Procs : StoppedTextReturned(p)
    \/ \E t \in Tasks : LoopStart(t)
    \/ \E t \in Tasks : LoopTop(t, 0) /\ ChecksWithin(RaceChecks)
    \/ \E t \in Tasks : LoopLoginReturned(t)
    \/ \E t \in Tasks : LoopNavigateReturned(t)
    \/ \E t \in Tasks : LoopSlotsReturned(t)
    \/ \E t \in Tasks : LoopSiteRaised(t, TRUE)
    \/ \E t \in Tasks : LoopShotReturned(t)
    \/ \E t \in Tasks : LoopHandlerDone(t)
    \/ \E t \in Tasks : LoopAfterTry(t)
    \/ \E t \in Tasks : LoopSleepWoken(t)
    \/ \E t \in Tasks : LoopCloseCall(t)
    \/ \E t \in Tasks : LoopClosed(t)

SpecRace == InitRace /\ [][NextRace]_vars

----------------------------------------------------------------------------
\* Concurrent handlers while the site refuses the credentials: every login
\* returns False.
DeniedTasks == 4
DeniedChecks == 3

DeniedPress(o) ==
    /\ ~InFlight(o)
    /\ o = "start" => TasksLeft(DeniedTasks)
    /\ o = "stop" => \E c \in Callers : pc[c] = "call" /\ op[c] = "start"
    /\ Call(o)

DeniedAnswers(p) == IF pc[p] = "login" THEN {Res("false")} ELSE {Res("ok")}

\* The last message of a handler is acknowledged before anything else
\* happens outside.
LastMessage(p) == p \in Callers /\ pc[p] \in {"start_text", "stopped_text"}
Acknowledged == \A c \in Callers : LastMessage(c) => InReady(c)

NextDenied ==
    \/ \E o \in {"start", "stop"} : Acknowledged /\ DeniedPress(o)
    \/ \E p \in Procs : \E r \in DeniedAnswers(p) :
            (Acknowledged \/ LastMessage(p)) /\ IoReturn(p, r)
    \/ Acknowledged /\ Tick
    \/ \E p \in Procs : SleepOver(p)
    \/ \E p \in Procs : WaitTimeout(p)
    \/ \E t \in Tasks : CancelDelivered(t)
    \/ \E c \in Callers : StartCall(c)
    \/ \E c \in Callers : StartTextReturned(c)
    \/ \E c \in Callers : StopCall(c)
    \/ \E p \in Procs : StopTextReturned(p)
    \/ \E p \in Procs : StopWaitResumed(p)
    \/ \E p \in Procs : StoppedTextReturned(p)
    \/ \E t \in Tasks : LoopStart(t)
    \/ \E t \in Tasks : LoopTop(t, 0) /\ ChecksWithin(DeniedChecks)
    \/ \E t \in Tasks : LoopLoginReturned(t)
    \/ \E t \in Tasks : LoopFatalTextReturned(t)
    \/ \E t \in Tasks : LoopHandlerDone(t)
    \/ \E t \in Tasks : LoopAfterTry(t)
    \/ \E t \in Tasks : LoopSleepWoken(t)
    \/ \E t \in Tasks : LoopCloseCall(t)
    \/ \E t \in Tasks : LoopClosed(t)

SpecDenied == InitRace /\ [][NextDenied]_vars

----------------------------------------------------------------------------
\* Concurrent handlers while the site is out of reach: every login raises an
\* error that is not bot-detection.
FlakyTasks == 4
FlakyChecks == 2

FlakyPress(o) ==
    /\ ~InFlight(o)
    /\ o = "start" => TasksLeft(FlakyTasks)
    /\ o = "stop" => \E c \in Callers : pc[c] = "call" /\ op[c] = "start"
    /\ Call(o)

FlakyAnswers(p) == IF pc[p] = "login" THEN {Res("error")} ELSE {Res("ok")}

NextFlaky ==
    \/ \E o \in {"start", "stop"} : Acknowledged /\ FlakyPress(o)
    \/ \E p \in Procs : \E r \in FlakyAnswers(p) :
            (Acknowledged \/ LastMessage(p)) /\ IoReturn(p, r)
    \/ Acknowledged /\ Tick
    \/ \E p \in Procs : SleepOver(p)
    \/ \E p \in Procs : WaitTimeout(p)
    \/ \E t \in Tasks : CancelDelivered(t)
    \/ \E c \in Callers : StartCall(c)
    \/ \E c \in Callers : StartTextReturned(c)
    \/ \E c \in Callers : StopCall(c)
    \/ \E p \in Procs : StopTextReturned(p)
    \/ \E p \in Procs : StopWaitResumed(p)
    \/ \E p \in Procs : StoppedTextReturned(p)
    \/ \E t \in Tasks : LoopStart(t)
    \/ \E t \in Tasks : LoopTop(t, 0) /\ ChecksWithin(FlakyChecks)
    \/ \E t \in Tasks : LoopSiteRaised(t, TRUE)
    \/ \E t \in Tasks : LoopHandlerDone(t)
    \/ \E t \in Tasks : LoopAfterTry(t)
    \/ \E t \in Tasks : LoopSleepWoken(t)
    \/ \E t \in Tasks : LoopCloseCall(t)
    \/ \E t \in Tasks : LoopClosed(t)

SpecFlaky == InitRace /\ [][NextFlaky]_vars

----------------------------------------------------------------------------
\* The dedup store over several runs of the process: the site is in order
\* and lists any slots; the process may end at any moment it is idle, and
\* the next one constructs its monitor from the cache file left behind.
StoreTasks == 2
StoreChecks == 2

StorePress(o) ==
    /\ \A c \in Callers : pc[c] = "none"
    /\ o = "start" => TasksLeft(StoreTasks)
    /\ Call(o)

StoreAnswers(p) ==
    CASE pc[p] = "login" -> {Res("true")}
      [] pc[p] = "slots" -> {[kind |-> "ok", slots |-> l] : l \in SlotLists}
      [] OTHER -> {Res("ok")}

\* main() of a new process: MonitorService(...) is constructed, its
\* __post_init__ loads the cache file.
Restart ==
    /\ ready = <<>>
    /\ \E p \in Procs : pc[p] # "none"
    /\ ready' = <<>>
    /\ pc' = [p \in Procs |-> "none"]
    /\ res' = [p \in Procs |-> NoRes]
    /\ timer' = [p \in Procs |-> None]
    /\ cancel_req' = [p \in Procs |-> FALSE]
    /\ task' = 0
    /\ stop_event' = FALSE
    /\ state' = [is_running |-> FALSE, last_check_at |-> None,
                 last_error |-> NoError, checks_count |-> 0,
                 slots_found_total |-> 0]
    /\ known_hashes' = LoadCache(cache_file)
    /\ captcha_until' = None
    /\ consecutive_errors' = 0
    /\ delay' = [t \in Tasks |-> 0]
    /\ session' = [t \in Tasks |-> "none"]
    /\ shot_path' = [t \in Tasks |-> None]
    /\ op' = [c \in Callers |-> "none"]
    /\ stop_target' = [p \in Procs |-> 0]
    /\ timed_out' = [p \in Procs |-> FALSE]
    /\ notes' = [p \in Procs |-> <<>>]
    /\ outcome' = [t \in Tasks |-> "idle"]
    /\ auth_failed' = [t \in Tasks |-> FALSE]
    /\ reported' = LoadCache(cache_file)
    /\ UNCHANGED <<cache_file, call>>

NextStore ==
    \/ \E o \in {"start", "stop"} : StorePress(o)
    \/ \E p \in Procs : \E r \in StoreAnswers(p) : IoReturn(p, r)
    \/ Tick
    \/ Restart
    \/ \E p \in Procs : SleepOver(p)
    \/ \E p \in Procs : WaitTimeout(p)
    \/ \E t \in Tasks : CancelDelivered(t)
    \/ \E c \in Callers : StartCall(c)
    \/ \E c \in Callers : StartTextReturned(c)
    \/ \E c \in Callers : StopCall(c)
    \/ \E p \in Procs : StopTextReturned(p)
    \/ \E p \in Procs : StopWaitResumed(p)
    \/ \E p \in Procs : StoppedTextReturned(p)
    \/ \E t \in Tasks : LoopStart(t)
    \/ \E t \in Tasks : LoopTop(t, 0) /\ ChecksWithin(StoreChecks)
    \/ \E t \in Tasks : LoopLoginReturned(t)
    \/ \E t \in Tasks : LoopNavigateReturned(t)
    \/ \E t \in Tasks : LoopSlotsReturned(t)
    \/ \E t \in Tasks : LoopSlotsTextReturned(t)
    \/ \E t \in Tasks : LoopAfterTry(t)
    \/ \E t \in Tasks : LoopSleepWoken(t)
    \/ \E t \in Tasks : LoopCloseCall(t)
    \/ \E t \in Tasks : LoopClosed(t)

SpecStore == Init /\ [][NextStore]_vars

----------------------------------------------------------------------------
\* The site session (src/browser.py): login and close.

LoginAttempts == 3          \* @async_retry(attempts=3, ...)

\* What one attempt of login finds: whether the site answers the opening
\* with an HTTP error, at which of its captcha checks the page shows a
\* captcha (1: after opening, 2: before the login form, 3: after the
\* dashboard was awaited, 4: the check of the except branch), and whether
\* the dashboard appears.
Views == {{}, {1}, {3}, {3, 4}}
Pages == [blocked : BOOLEAN, seen : Views, dashboard : BOOLEAN]
Modes == {"auto", "manual"}

\* The end of one attempt, and whether _check_captcha raised during it.
Attempt(kind, detected) == [kind |-> kind, detected |-> detected]

\* VFS_MANUAL_LOGIN: open the country page, one captcha check.
ManualLogin(page) ==
    IF page.blocked THEN Attempt("false", FALSE)
    ELSE IF 1 \in page.seen THEN Attempt("false", TRUE)
    ELSE Attempt("true", FALSE)

\* The automatic login; the form is found and filled.
AutoLogin(page) ==
    IF page.blocked THEN Attempt("error", FALSE)
    ELSE IF 1 \in page.seen \/ 2 \in page.seen THEN Attempt("captcha", TRUE)
    ELSE IF page.dashboard /\ 3 \notin page.seen THEN Attempt("true", FALSE)
    ELSE IF 4 \in page.seen THEN Attempt("captcha", TRUE)
    ELSE Attempt("false", page.dashboard /\ 3 \in page.seen)

LoginOnce(mode, page) == IF mode = "manual" THEN ManualLogin(page) ELSE AutoLogin(page)

\* async_retry: an attempt that raises is repeated until the last one, whose
\* exception is raised to the caller; a returned value is final.
RECURSIVE Retried(_, _, _)
Retried(mode, pages, attempt) ==
    LET a == LoginOnce(mode, pages[attempt])
    IN IF a.kind \in {"true", "false"} \/ attempt >= LoginAttempts THEN a
       ELSE Retried(mode, pages, attempt + 1)

\* utils.async_retry, the wrapper: outs[i] is what the i-th call of the
\* wrapped function does ("ok": returns, "fail": raises an exception of the
\* configured set, "other": raises another one); attempt counts the failures
\* so far, next_delay is the wrapper's delay, sleeps the sleeps made.
RECURSIVE RetryFrom(_, _, _, _, _, _)
RetryFrom(attempts, max_delay, outs, attempt, next_delay, sleeps) ==
    LET o == outs[attempt + 1]
    IN IF o = "ok" THEN [calls |-> attempt + 1, sleeps |-> sleeps, end |-> "returned"]
       ELSE IF o = "other"
       THEN [calls |-> attempt + 1, sleeps |-> sleeps, end |-> "propagated"]
       ELSE IF attempt + 1 >= attempts
       THEN [calls |-> attempt + 1, sleeps |-> sleeps, end |-> "raised"]
       ELSE RetryFrom(attempts, max_delay, outs, attempt + 1,
                      Min(max_delay, next_delay * 2), Append(sleeps, next_delay))

AsyncRetry(attempts, base_delay, max_delay, outs) ==
    RetryFrom(attempts, max_delay, outs, 0, base_delay, <<>>)

\* async_retry: the number of times the wrapper calls login.
RECURSIVE Tries(_, _, _)
Tries(mode, pages, attempt) ==
    LET a == LoginOnce(mode, pages[attempt])
    IN IF a.kind \in {"true", "false"} \/ attempt >= LoginAttempts THEN attempt
       ELSE Tries(mode, pages, attempt + 1)

\* VFSBrowser.login as the monitor calls it.
Login(mode, pages) == Retried(mode, pages, 1)

\* The fields of a VFSBrowser: the Playwright objects it holds (TRUE) or
\* None (FALSE); _playwright is not set by __init__, and a Playwright that
\* was stopped is still referenced.
NewSession ==
    [browser |-> FALSE, context |-> FALSE, page |-> FALSE, startup_ts |-> FALSE,
     playwright |-> "unset", cdp_mode |-> FALSE]
\* _ensure_browser went through, launching Chrome or connecting over CDP.
OpenSession(cdp) ==
    [browser |-> TRUE, context |-> TRUE, page |-> TRUE, startup_ts |-> TRUE,
     playwright |-> "running", cdp_mode |-> cdp]
Sessions == {NewSession} \cup {OpenSession(cdp) : cdp \in BOOLEAN}

\* The calls close() makes on the objects it holds, in order.
Teardown(s) ==
    (IF ~s.cdp_mode /\ s.context THEN <<"storage_state">> ELSE <<>>)
        \o (IF ~s.cdp_mode /\ s.page THEN <<"page.close">> ELSE <<>>)
        \o (IF ~s.cdp_mode /\ s.context THEN <<"context.close">> ELSE <<>>)
        \o (IF s.browser THEN <<"browser.close">> ELSE <<>>)
        \o (IF s.playwright # "unset" THEN <<"playwright.stop">> ELSE <<>>)

\* VFSBrowser.close: the teardown, then the four fields are set to None.
\* stop() of a Playwright already stopped may raise; the fields are then
\* left as they are.
Close(s, raises) ==
    IF raises /\ s.playwright = "stopped"
    THEN [state |-> s, actions |-> Teardown(s), raised |-> TRUE]
    ELSE [state |-> [s EXCEPT !.browser = FALSE, !.context = FALSE, !.page = FALSE,
                              !.startup_ts = FALSE,
                              !.playwright = IF @ = "unset" THEN @ ELSE "stopped"],
          actions |-> Teardown(s), raised |-> FALSE]

----------------------------------------------------------------------------
\* The dispatcher of the bot (src/bot.py): which handler an incoming update
\* runs.

Chats == {"admin", "other"}
UpdateKinds == {"message", "callback_query"}
Payloads == {"/start", "/test_login", "start_monitoring", "stop_monitoring",
             "status", "hello"}
Updates == [kind : UpdateKinds, chat : Chats, data : Payloads]

\* @dp.message(Command(...)) and @dp.callback_query(F.data == ...)
Handlers ==
    {"cmd_start", "cmd_test_login", "on_start_monitoring", "on_stop_monitoring",
     "on_status"}
Routed(u) ==
    CASE u.kind = "message" /\ u.data = "/start" -> "cmd_start"
      [] u.kind = "message" /\ u.data = "/test_login" -> "cmd_test_login"
      [] u.kind = "callback_query" /\ u.data = "start_monitoring" -> "on_start_monitoring"
      [] u.kind = "callback_query" /\ u.data = "stop_monitoring" -> "on_stop_monitoring"
      [] u.kind = "callback_query" /\ u.data = "status" -> "on_status"
      [] OTHER -> "unhandled"

\* AdminOnlyMiddleware.__call__: an event of another chat is answered and
\* dropped.
AdminOnly(u, handler) == IF u.chat # "admin" THEN "rejected" ELSE handler

\* dp.message.middleware(AdminOnlyMiddleware(...)): the middleware is put
\* on the message observer only.
Dispatch(u) == IF u.kind = "message" THEN AdminOnly(u, Routed(u)) ELSE Routed(u)

----------------------------------------------------------------------------
\* Progress: concurrent handlers as above, with every awaited call answered,
\* every runnable task run and time passing.  The site is in order and shows
\* no slot.  Stop is pressed only while a loop task is alive.
LiveTasks == 2
LiveChecks == 2

LivePress(o) ==
    /\ ~InFlight(o)
    /\ o = "start" => TasksLeft(LiveTasks)
    /\ o = "stop" => \E t \in Tasks : Alive(t)
    /\ Call(o)

LiveAnswers(p) ==
    CASE pc[p] = "login" -> {Res("true")}
      [] pc[p] = "slots" -> {[kind |-> "ok", slots |-> <<>>]}
      [] OTHER -> {Res("ok")}

\* A check after the first LiveChecks ones, lines 118-143 as in LoopTop.  The
\* loop reads checks_count nowhere, and the count is held at LiveChecks here,
\* so that a loop that goes on checking is a cycle over finitely many states.
LoopTopBeyond(t) ==
    /\ At(t, "top")
    /\ ~stop_event
    /\ ~CooldownActive(captcha_until, now)
    /\ state.checks_count >= LiveChecks
    /\ delay' = [delay EXCEPT ![t] = NextDelay(CheckInterval, CheckIntervalVariation, 0,
                                                 consecutive_errors)]
    /\ ready' = Tail(ready)
    /\ state' = [state EXCEPT !.last_check_at = <<now>>]
    /\ pc' = [pc EXCEPT ![t] = "login"]
    /\ notes' = [notes EXCEPT ![t] = <<>>]
    /\ outcome' = [outcome EXCEPT ![t] = "pending"]
    /\ UNCHANGED <<timer, res, cancel_req, task, stop_event, known_hashes, captcha_until,
                   consecutive_errors, cache_file, session, shot_path, op, stopVars,
                   auth_failed>>
    /\ UNCHANGED auditVars

\* The steps of process p: the end of what it awaits, and its own code.
ProcStep(p) ==
    \/ \E r \in LiveAnswers(p) : IoReturn(p, r)
    \/ SleepOver(p)
    \/ WaitTimeout(p)
    \/ p \in Tasks /\ CancelDelivered(p)
    \/ p \in Callers /\ StartCall(p)
    \/ p \in Callers /\ StartTextReturned(p)
    \/ p \in Callers /\ StopCall(p)
    \/ StopTextReturned(p)
    \/ StopWaitResumed(p)
    \/ StoppedTextReturned(p)
    \/ p \in Tasks /\ LoopStart(p)
    \/ p \in Tasks /\ LoopTop(p, 0) /\ ChecksWithin(LiveChecks)
    \/ p \in Tasks /\ LoopTopBeyond(p)
    \/ p \in Tasks /\ LoopLoginReturned(p)
    \/ p \in Tasks /\ LoopNavigateReturned(p)
    \/ p \in Tasks /\ LoopSlotsReturned(p)
    \/ p \in Tasks /\ LoopAfterTry(p)
    \/ p \in Tasks /\ LoopSleepWoken(p)
    \/ p \in Tasks /\ LoopCloseCall(p)
    \/ p \in Tasks /\ LoopClosed(p)

NextLive ==
    \/ \E o \in {"start", "stop"} : LivePress(o)
    \/ Tick
    \/ \E p \in Procs : ProcStep(p)

\* The event loop serves every runnable task, every awaited call returns,
\* and time goes on whenever the event loop is idle.
Fairness ==
    /\ \A p \in Procs : WF_vars(ProcStep(p))
    /\ SF_vars(Tick)

SpecLive == InitRace /\ [][NextLive]_vars /\ Fairness

----------------------------------------------------------------------------
\* Progress through a cooldown: one handler at a time; the site may show a
\* captcha page at any call, the screenshot may fail and the directory of
\* the screenshots may be refused.
CoolPress(o) ==
    /\ \A c \in Callers : pc[c] = "none"
    /\ o = "start" => TasksLeft(LiveTasks)
    /\ Call(o)

CoolAnswers(p) ==
    CASE pc[p] \in SitePcs -> {Res("captcha")}
      [] pc[p] = "shot" -> {Res("error")}
      [] OTHER -> {}

\* The steps of process p, with those of the captcha handler.
CoolStep(p) ==
    \/ ProcStep(p)
    \/ \E r \in CoolAnswers(p) : IoReturn(p, r)
    \/ p \in Tasks /\ \E mkdir_ok \in BOOLEAN : LoopSiteRaised(p, mkdir_ok)
    \/ p \in Tasks /\ LoopShotReturned(p)
    \/ p \in Tasks /\ LoopHandlerDone(p)

NextCool ==
    \/ \E o \in {"start", "stop"} : CoolPress(o)
    \/ Tick
    \/ \E p \in Procs : CoolStep(p)

FairnessCool ==
    /\ \A p \in Procs : WF_vars(CoolStep(p))
    /\ SF_vars(Tick)

SpecCool == InitRace /\ [][NextCool]_vars /\ FairnessCool

----------------------------------------------------------------------------
\* A run of failures: the monitor is started once and left running; login
\* succeeds or fails with a transient error, the draw of the jitter is any
\* of the sampled ones.
StreakTasks == 1
StreakChecks == 7

StreakPress ==
    /\ \A c \in Callers : pc[c] = "none"
    /\ TasksLeft(StreakTasks)
    /\ Call("start")

StreakAnswers(p) ==
    CASE pc[p] = "login" -> {Res("true"), Res("error")}
      [] pc[p] = "slots" -> {[kind |-> "ok", slots |-> <<>>]}
      [] OTHER -> {Res("ok")}

NextStreak ==
    \/ StreakPress
    \/ \E p \in Procs : \E r \in StreakAnswers(p) : IoReturn(p, r)
    \/ Tick
    \/ \E p \in Procs : SleepOver(p)
    \/ \E c \in Callers : StartCall(c)
    \/ \E c \in Callers : StartTextReturned(c)
    \/ \E t \in Tasks : LoopStart(t)
    \/ \E t \in Tasks : \E delta \in Deltas(CheckIntervalVariation) :
            LoopTop(t, delta) /\ ChecksWithin(StreakChecks)
    \/ \E t \in Tasks : LoopLoginReturned(t)
    \/ \E t \in Tasks : LoopNavigateReturned(t)
    \/ \E t \in Tasks : LoopSlotsReturned(t)
    \/ \E t \in Tasks : LoopSiteRaised(t, TRUE)
    \/ \E t \in Tasks : LoopHandlerDone(t)
    \/ \E t \in Tasks : LoopAfterTry(t)
    \/ \E t \in Tasks : LoopSleepWoken(t)

SpecStreak == InitRace /\ [][NextStreak]_vars

----------------------------------------------------------------------------
\* Single calls: one function or method of the monitor applied to inputs
\* chosen at the start, with no loop running.

PureDays == 2
MaxBase == 32
MaxVariation == 32
PureErrors == 1
PureStreak == 6

RetryAttempts == 4
RetryBase == 3
RetryMax == 5

loopState == <<schedVars, loopVars, op, stopVars, histVars, task, stop_event,
               state, captcha_until, consecutive_errors>>

Pending(fn, arg) == [fn |-> fn, arg |-> arg, out |-> <<>>, done |-> FALSE]
Returned(fn, arg, out) == [fn |-> fn, arg |-> arg, out |-> out, done |-> TRUE]

\* The files a monitor has written or found: any store over the listed slots.
WrittenFiles ==
    {MissingFile, CorruptFile}
        \cup UNION {Saved(S) : S \in SUBSET {SlotHash(x) : x \in ListedSlots}}

\* What a file in the place of the cache can hold.
AnyFiles == WrittenFiles \cup {TextFile(<<"a", "b">>), OtherFile}

\* interval, variation, the draw of random.uniform, consecutive_errors.
Pacings ==
    {<<b, v, d, e>> : b \in 30..MaxBase, v \in (0 - 1)..MaxVariation,
                      d \in (0 - MaxVariation)..MaxVariation, e \in 0..PureErrors}

\* Two iterations of the loop in a row: interval, variation, the draw of
\* each iteration, and consecutive_errors at the second one.
PacingPairs ==
    {<<b, v, d1, d2, k>> : b \in {30, CheckInterval}, v \in {0, CheckIntervalVariation},
                           d1 \in Deltas(CheckIntervalVariation),
                           d2 \in Deltas(CheckIntervalVariation), k \in 1..PureStreak}

\* A monitor constructed from a file, about to run one of its methods.
InitMethod ==
    /\ cache_file \in WrittenFiles
    /\ known_hashes = LoadCache(cache_file)
    /\ reported = LoadCache(cache_file)
    /\ call \in {Pending("filter", l) : l \in SlotLists} \cup {Pending("save", <<>>)}

\* A monitor under construction: the fields hold their defaults and
\* __post_init__ is about to load the file; no monitor ran before.
InitLoad ==
    /\ cache_file \in AnyFiles
    /\ known_hashes = {}
    /\ reported = {}
    /\ call = Pending("load", NoCall)

\* A module-level function about to be applied; no file is involved.
InitFunction ==
    /\ cache_file = MissingFile
    /\ known_hashes = {}
    /\ reported = {}
    /\ \/ call \in {Pending("hash", <<a, b>>) : a, b \in FreeSlots(PureDays)}
       \/ call \in {Pending("delay", a) :
                        a \in {q \in Pacings :
                                  IF q[2] <= 0 THEN q[3] = 0
                                  ELSE 0 - q[2] <= q[3] /\ q[3] <= q[2]}}
       \/ call \in {Pending("delays", a) : a \in PacingPairs}
       \/ call \in {Pending("dispatch", u) : u \in Updates}
       \/ call \in {Pending("close", x) : x \in Sessions}
       \/ call \in {Pending("login", <<m, ps>>) :
                        m \in Modes, ps \in [1..LoginAttempts -> Pages]}
       \/ call \in {Pending("retry", <<n, b, m, o>>) :
                        n \in (0 - 1)..RetryAttempts, b \in 1..RetryBase, m \in 1..RetryMax,
                        o \in [1..Max(1, RetryAttempts) -> {"ok", "fail", "other"}]}

InitPure == (InitMethod \/ InitLoad \/ InitFunction) /\ Constructed

\* _slot_hash(a) and _slot_hash(b).
ApplySlotHash ==
    /\ call.fn = "hash" /\ ~call.done
    /\ call' = Returned("hash", call.arg,
                        <<SlotHash(call.arg[1]), SlotHash(call.arg[2])>>)
    /\ UNCHANGED <<loopState, known_hashes, cache_file, reported>>

\* Lines 120-127: jitter_delay(interval, variation), times the factor.
ApplyNextDelay ==
    /\ call.fn = "delay" /\ ~call.done
    /\ call' = Returned("delay", call.arg,
                        NextDelay(call.arg[1], call.arg[2], call.arg[3], call.arg[4]))
    /\ UNCHANGED <<loopState, known_hashes, cache_file, reported>>

\* Lines 120-127 in two iterations: with one error less, then with k.
ApplyNextDelays ==
    /\ call.fn = "delays" /\ ~call.done
    /\ LET a == call.arg
       IN call' = Returned("delays", a,
                           <<NextDelay(a[1], a[2], a[3], a[5] - 1),
                             NextDelay(a[1], a[2], a[4], a[5])>>)
    /\ UNCHANGED <<loopState, known_hashes, cache_file, reported>>

\* browser.login(email=..., password=...)
ApplyLogin ==
    /\ call.fn = "login" /\ ~call.done
    /\ call' = Returned("login", call.arg, Login(call.arg[1], call.arg[2]))
    /\ UNCHANGED <<loopState, known_hashes, cache_file, reported>>

\* browser.close(), the first time or again after a close() that completed.
ApplyClose ==
    \E raises \in BOOLEAN :
        /\ \/ /\ call.fn = "close" /\ ~call.done
              /\ call' = Returned("close", call.arg, Close(call.arg, raises))
           \/ /\ call.fn = "close" /\ call.done /\ ~call.out.raised
              /\ call' = Returned("reclose", call.out.state,
                                  Close(call.out.state, raises))
        /\ UNCHANGED <<loopState, known_hashes, cache_file, reported>>

\* A function wrapped by async_retry is called.
ApplyRetry ==
    /\ call.fn = "retry" /\ ~call.done
    /\ call' = Returned("retry", call.arg,
                        AsyncRetry(call.arg[1], call.arg[2], call.arg[3], call.arg[4]))
    /\ UNCHANGED <<loopState, known_hashes, cache_file, reported>>

\* The dispatcher feeds one update to its observers.
ApplyDispatch ==
    /\ call.fn = "dispatch" /\ ~call.done
    /\ call' = Returned("dispatch", call.arg, Dispatch(call.arg))
    /\ UNCHANGED <<loopState, known_hashes, cache_file, reported>>

\* self._filter_new_slots(slots)
ApplyFilterNew ==
    /\ call.fn = "filter" /\ ~call.done
    /\ LET f == FilterNew(call.arg, known_hashes)
       IN /\ known_hashes' = f.known
          /\ call' = Returned("filter", call.arg, f.new)
    /\ UNCHANGED <<loopState, cache_file, reported>>

\* self._save_cache(), at once or after the filter; the result says whether
\* the write went through (a failure is only logged).
ApplySave ==
    /\ \/ call.fn = "save" /\ ~call.done
       \/ call.fn = "filter" /\ call.done
    /\ \E ok \in BOOLEAN :
          /\ IF ok THEN cache_file' \in Saved(known_hashes)
                   ELSE cache_file' \in {cache_file, CorruptFile}
          /\ call' = Returned("save", known_hashes, ok)
    /\ UNCHANGED <<loopState, known_hashes, reported>>

\* MonitorService(...) of a fresh monitor: __post_init__ calls _load_cache().
\* The argument of the call is the call the old monitor made last.
ApplyLoad ==
    /\ \/ call.fn = "load" /\ ~call.done
       \/ call.fn = "save" /\ call.done
    /\ known_hashes' = LoadCache(cache_file)
    /\ reported' = LoadCache(cache_file)
    /\ call' = Returned("load", IF call.fn = "load" THEN call.arg ELSE call,
                        LoadCache(cache_file))
    /\ UNCHANGED <<loopState, cache_file>>

NextPure ==
    \/ ApplySlotHash
    \/ ApplyNextDelay
    \/ ApplyNextDelays
    \/ ApplyLogin
    \/ ApplyClose
    \/ ApplyDispatch
    \/ ApplyRetry
    \/ ApplyFilterNew
    \/ ApplySave
    \/ ApplyLoad

SpecPure == InitPure /\ [][NextPure]_vars

----------------------------------------------------------------------------
\* Properties.

\* Positions inside the while loop of _run_loop (lines 118-194).
LoopPcs ==
    {"top", "cooldown_sleep", "login", "fatal_text", "stop_text", "stop_wait",
     "stopped_text", "navigate", "slots", "slots_text", "shot", "captcha_text",
     "error_text", "after_try", "sleep"}
InLoop(t) == pc[t] \in LoopPcs

\* Positions inside stop() (lines 101-109).
StopPcs == {"stop_text", "stop_wait", "stopped_text"}

\* The check of a task is over: the try statement was left.
CycleOver(t) == pc[t] \in {"after_try", "sleep", "close_call", "closing", "done", "failed"}

\* The notifications of a task's current cycle that are of one of the kinds ks.
NotesOf(t, ks) == {i \in DOMAIN notes[t] : notes[t][i].kind \in ks}
CycleKinds == {"fatal", "slots", "captcha", "error"}

\* C1: under every interleaving of start() and stop() calls with the loop's
\* steps, at most one loop task is inside the loop body at any time.
OneLoopAtATime == Cardinality({t \in Tasks : InLoop(t)}) <= 1

\* C2: a loop task that has ended, by whatever path, has released the site
\* session it created.
SessionReleasedAtExit == \A t \in Tasks : Done(t) => session[t] # "open"

\* C3: a stop() whose 30-second wait expired has not terminated the loop
\* task: no cancellation was requested of the task it waited for, and that
\* task did not end cancelled.
TimeoutLeavesTaskRunning ==
    \A p \in Procs :
        timed_out[p] =>
            ~cancel_req[stop_target[p]] /\ pc[stop_target[p]] # "cancelled"

\* C4: every stop() call that found a task registered ends by returning after
\* its "stopped" message, with "stopping" then "stopped" emitted and
\* is_running false.
StopReturnsStopped ==
    [][\A p \in Procs :
          (pc[p] \in StopPcs /\ pc'[p] \notin StopPcs) =>
              /\ pc[p] = "stopped_text"
              /\ \E i, j \in DOMAIN notes[p] :
                    /\ i < j
                    /\ notes[p][i].kind = "stopping"
                    /\ notes[p][j].kind = "stopped"
              /\ ~state'.is_running]_vars

\* C5: once login has returned False to a loop, that loop makes no further
\* login, navigate or list-slots call (so it begins no further check).
NoCycleAfterAuthFalse ==
    [][\A t \in Tasks :
          (auth_failed[t] /\ pc'[t] # pc[t]) => pc'[t] \notin SitePcs]_vars

\* C6: after a check in which login returned False, once the loop task has
\* ended (and nothing else has been asked of the monitor since) the monitor
\* is idle: is_running is false, last_error is the credential message and the
\* credential text was emitted.
IdleAfterAuthFalse ==
    \A t \in Tasks :
        (auth_failed[t] /\ Done(t) /\ task = t /\ \A c \in Callers : pc[c] = "none") =>
            /\ ~state.is_running
            /\ state.last_error = AuthMsg
            /\ NotesOf(t, {"fatal"}) # {}

\* C7: a check emits at most one notification among fatal text, slot batch,
\* captcha alert and error text: exactly one when it ended in a credential
\* failure, new slots, bot-detection or a transient failure, none when it
\* found nothing new.
OneNotePerCycle ==
    \A t \in Tasks :
        /\ Cardinality(NotesOf(t, CycleKinds)) <= 1
        /\ (CycleOver(t) /\ outcome[t] \in {"fatal", "new", "captcha", "error"}) =>
                Cardinality(NotesOf(t, CycleKinds)) = 1
        /\ (CycleOver(t) /\ outcome[t] = "nonew") => NotesOf(t, CycleKinds) = {}

\* C8: while the cooldown is active no loop begins a login, navigate or
\* list-slots call.
NoSiteCallInCooldown ==
    [][\A t \in Tasks :
          (pc'[t] \in SitePcs /\ pc'[t] # pc[t]) =>
              ~CooldownActive(captcha_until, now)]_vars

\* C9: a check in which the site signalled bot-detection ends with the
\* cooldown set and exactly one captcha alert emitted, carrying the snapshot
\* path, whether or not the snapshot was taken.
CaptchaCycleHandled ==
    \A t \in Tasks :
        (CycleOver(t) /\ outcome[t] = "captcha") =>
            /\ captcha_until # None
            /\ Cardinality(NotesOf(t, {"captcha"})) = 1
            /\ \A i \in NotesOf(t, {"captcha"}) : notes[t][i].arg = <<shot_path[t]>>

\* C10: when a site call of a check ends in a failure that is not
\* bot-detection, the loop's next step sets last_error to the failure's
\* message, raises consecutive_errors by exactly one and emits one error text
\* carrying the new streak length.  (A task whose cancellation was requested
\* is thrown CancelledError instead: its check ends cancelled, not failed.)
TransientFailureRecorded ==
    [][\A t \in Tasks :
          (pc[t] \in SitePcs /\ res[t].kind = "error" /\ pc'[t] # pc[t]
                /\ ~cancel_req[t]) =>
              /\ pc'[t] = "error_text"
              /\ state'.last_error = "transient"
              /\ consecutive_errors' = consecutive_errors + 1
              /\ notes'[t] = Append(notes[t],
                                    Note("error", <<consecutive_errors + 1>>))]_vars

\* C10, reached: a second failure in a row has just been reported.
SecondFailureReported ==
    \E t \in Tasks :
        /\ pc[t] = "error_text"
        /\ outcome[t] = "error"
        /\ consecutive_errors = 2
        /\ state.last_error = "transient"
        /\ notes[t] = <<Note("error", <<2>>)>>

\* A task whose check ended in a transient failure and which is on its way to
\* the next check: handler, stop test, sleep.
AfterFailure(t) == outcome[t] = "error" /\ pc[t] \in {"error_text", "after_try", "sleep"}

\* C11: a transient failure never stops the monitor: while a loop is between
\* a failed check and the next one and the stop signal is unset, is_running
\* is true, and the loop's step after the handler is the sleep of the delay
\* computed for this iteration, not an exit.
FailureNeverStops ==
    /\ [](\A t \in Tasks : (AfterFailure(t) /\ ~stop_event) => state.is_running)
    /\ [][\A t \in Tasks :
            (AfterFailure(t) /\ pc[t] = "after_try" /\ ~stop_event /\ pc'[t] # pc[t]) =>
                pc'[t] = "sleep" /\ timer'[t] = <<now + delay[t]>>]_vars

\* C12: no fingerprint goes into more than one slot batch: a batch holds no
\* fingerprint that an earlier batch of this monitor held (whatever stop()
\* and start() came in between), none that the store the monitor was
\* constructed from held, and none twice.
OnceReported ==
    [][\A t \in Tasks :
          (pc[t] = "slots" /\ pc'[t] = "slots_text") =>
              LET batch == notes'[t][Len(notes'[t])].arg
              IN /\ \A i \in DOMAIN batch : SlotHash(batch[i]) \notin reported
                 /\ \A i, j \in DOMAIN batch :
                        i # j => SlotHash(batch[i]) # SlotHash(batch[j])]_vars

\* C12, reached: a monitor constructed from a store of one fingerprint has
\* sent its first batch, of one other slot.
ReportedBesideStore ==
    \E t \in Tasks :
        /\ pc[t] = "slots_text"
        /\ Len(notes[t][1].arg) = 1
        /\ state.slots_found_total = 1
        /\ Cardinality(reported) = 2
        /\ cache_file.kind = "json" /\ Len(cache_file.hashes) = 1

\* The candidates that are new: fingerprint not in the store, and not that
\* of an earlier candidate of the list.
FirstSeen(slots, known) ==
    {i \in DOMAIN slots :
        /\ SlotHash(slots[i]) \notin known
        /\ \A j \in 1..(i - 1) : SlotHash(slots[j]) # SlotHash(slots[i])}

\* The elements of a sequence at the positions I, in order.
Pick(q, I) ==
    LET F[k \in 0..Len(q)] ==
            IF k = 0 THEN <<>>
            ELSE IF k \in I THEN Append(F[k - 1], q[k]) ELSE F[k - 1]
    IN F[Len(q)]

\* C13: when list-slots returns to the loop candidates of which n are new,
\* then for n >= 1 slots_found_total grows by n and one slot batch holding
\* exactly those n slots in input order is sent, and once the batch is sent
\* the store is saved (the file then holds the store unless the write
\* failed); for n = 0 nothing is sent and slots_found_total is unchanged.
\* The end of the process is no step of a check.
NewSlotsBatch ==
    [][\/ Restart
       \/ \A t \in Tasks :
            /\ (pc[t] = "slots" /\ res[t].kind = "ok" /\ pc'[t] # pc[t] /\ ~cancel_req[t]) =>
                  LET I == FirstSeen(res[t].slots, known_hashes)
                  IN IF I # {}
                     THEN /\ state'.slots_found_total =
                                  state.slots_found_total + Cardinality(I)
                          /\ notes'[t] = <<Note("slots", Pick(res[t].slots, I))>>
                     ELSE /\ state'.slots_found_total = state.slots_found_total
                          /\ notes'[t] = <<>>
            /\ (pc[t] = "slots_text" /\ pc'[t] # pc[t]) =>
                  /\ pc'[t] = "after_try"
                  /\ cache_file' \in SaveCache(known_hashes, cache_file)]_vars

FilterNewStable ==
    [][(call.fn = "filter" /\ ~call.done /\ call'.fn = "filter") =>
          /\ call'.out = Pick(call.arg, FirstSeen(call.arg, known_hashes))
          /\ known_hashes' =
                known_hashes \cup {SlotHash(call.arg[i]) : i \in DOMAIN call.arg}]_vars

\* C14, reached: on an empty store, [s1, s2, s1] gave [s1, s2].
FilteredRepeat ==
    /\ call.fn = "filter" /\ call.done
    /\ cache_file = MissingFile
    /\ Len(call.arg) = 3
    /\ call.arg[1] = call.arg[3] /\ call.arg[1] # call.arg[2]
    /\ call.out = SubSeq(call.arg, 1, 2)

\* C16: a save that went through, then the load of a freshly constructed
\* monitor, gives exactly the set the saving monitor held; and a save leaves
\* the set in memory as it was.
SaveLoadRoundTrip ==
    [][/\ (call.fn = "save" /\ call.done /\ call.out /\ call'.fn = "load") =>
              known_hashes' = call.arg
       /\ (call.fn # "save" /\ call'.fn = "save") =>
              known_hashes' = known_hashes]_vars

\* C16, reached: a store of two fingerprints, one of them added by the
\* filter after the file was read, came back from the file.
GrownStoreLoaded ==
    /\ call.fn = "load" /\ call.arg.fn = "save" /\ call.arg.out
    /\ Cardinality(call.arg.arg) = 2
    /\ call.out = call.arg.arg

\* C17: the load of a monitor under construction leaves the set empty when
\* the file is missing, and when it is there but is not a JSON object with a
\* list under "hashes".
LoadStartsEmpty ==
    (call.fn = "load" /\ call.done /\ call.arg.fn = "none"
        /\ cache_file.kind # "json") => known_hashes = {}

\* The four fields the fingerprint is made of.
Key(slot) == <<slot.date, slot.start_time, slot.location, slot.service>>

\* C18: two slots that differ in date, start_time, location or service get
\* different fingerprints.
HashInjective ==
    (call.fn = "hash" /\ call.done /\ Key(call.arg[1]) # Key(call.arg[2])) =>
        call.out[1] # call.out[2]

\* C19: two slots equal in date, start_time, location and service get the
\* same fingerprint whatever their notes and end_time, and the fingerprint
\* returned is the one any other computation on the slot gives.
HashOfKeyOnly ==
    (call.fn = "hash" /\ call.done) =>
        /\ Key(call.arg[1]) = Key(call.arg[2]) => call.out[1] = call.out[2]
        /\ call.out[1] = SlotHash(call.arg[1])

\* C19, reached: the fingerprints of two slots that differ in notes and in
\* end_time only.
HashedTwins ==
    /\ call.fn = "hash" /\ call.done
    /\ Key(call.arg[1]) = Key(call.arg[2])
    /\ call.arg[1].notes # call.arg[2].notes
    /\ call.arg[1].end_time # call.arg[2].end_time

\* C20: with an interval of at least 30 and no error in a row, the delay is
\* at least 1 and within [interval - variation, interval + variation] when
\* variation >= 0, and is the interval when variation <= 0.
PacingBounds ==
    (call.fn = "delay" /\ call.done /\ call.arg[1] >= 30 /\ call.arg[4] = 0) =>
        LET base == call.arg[1]
            variation == call.arg[2]
        IN /\ variation >= 0 =>
                /\ call.out >= 1
                /\ base - variation <= call.out /\ call.out <= base + variation
           /\ variation <= 0 => call.out = base

\* C20, reached: the draw took the delay under one second and the floor of
\* one second applied.
DelayFloored ==
    /\ call.fn = "delay" /\ call.done /\ call.arg[4] = 0
    /\ call.arg[2] > 0
    /\ call.arg[1] + call.arg[3] < 1
    /\ call.out = 1

\* C21: for one interval and one variation, the delay the loop computes with
\* consecutive_errors = k is at least the delay it computed with
\* consecutive_errors = k - 1.
AmplificationMonotone ==
    (call.fn = "delays" /\ call.done) => call.out[2] >= call.out[1]

\* C22: start() run while a loop task is active (created and not ended) is a
\* no-op: no task is created, the stop signal and every other field of the
\* monitor stay as they are, and the call returns without a notification.
StartWhileActiveNoOp ==
    [][\A c \in Callers :
          (/\ At(c, "call") /\ op[c] = "start" /\ pc'[c] # "call"
           /\ \E t \in Tasks : Alive(t)) =>
              /\ pc'[c] = "none"
              /\ UNCHANGED monVars
              /\ \A t \in Tasks : pc'[t] = pc[t]]_vars

\* C23: stop() run while no loop task is active (none was created, or every
\* one has ended) is a no-op: it returns at once without a notification and
\* leaves the stop signal and every other field of the monitor as they are.
StopWhileIdleNoOp ==
    [][\A c \in Callers :
          (/\ At(c, "call") /\ op[c] = "stop" /\ pc'[c] # "call"
           /\ \A t \in Tasks : ~Alive(t)) =>
              /\ pc'[c] = "none"
              /\ UNCHANGED monVars]_vars

\* C24: when stop() is called while a loop task is running, that task
\* eventually ends and the call of stop() eventually returns; and a loop task
\* that has seen the stop signal goes to browser.close() and on to its end
\* without another site call.
StopLiveness ==
    /\ \A c \in Callers : \A t \in Tasks :
          (At(c, "call") /\ op[c] = "stop" /\ Alive(t)) ~> (Done(t) /\ pc[c] = "none")
    /\ [][\A t \in Tasks :
            pc[t] \in {"close_call", "closing"} =>
                pc'[t] \in {"close_call", "closing", "done", "cancelled"}]_vars

\* C25: the side operations of a check are best-effort: whether or not the
\* logs directory can be made and the screenshot taken, the handling of a
\* captcha goes on to its alert; whether or not the cache file can be
\* written, the check ends as a success; none of them ends the loop task or
\* adds to consecutive_errors.
BestEffortSideOps ==
    [][\A t \in Tasks :
          /\ ((\E l \in SitePcs : At(t, l)) /\ res[t].kind = "captcha"
                  /\ pc'[t] # pc[t]) =>
                (pc'[t] = "shot" /\ UNCHANGED consecutive_errors)
          /\ (At(t, "shot") /\ pc'[t] # pc[t]) =>
                (pc'[t] = "captcha_text" /\ UNCHANGED consecutive_errors)
          /\ (At(t, "slots_text") /\ pc'[t] # pc[t]) =>
                (pc'[t] = "after_try" /\ consecutive_errors' = 0)]_vars

\* C26: checks_count and slots_found_total never decrease, whatever the
\* outcome of a check and across stop() and start().
CountersMonotonic ==
    [][/\ state.checks_count <= state'.checks_count
       /\ state.slots_found_total <= state'.slots_found_total]_vars

\* C26, reached: after a stop() and a start(), the second loop task has made
\* a check of its own and the counters hold the first task's check and slot
\* as well.
CountersKeptOverRestart ==
    /\ pc[1] \in Finished /\ Alive(2) /\ task = 2
    /\ outcome[2] # "idle"
    /\ state.checks_count = 2
    /\ state.slots_found_total = 1

\* C27: a login during which the captcha check found a captcha ends with
\* the bot-detection signal, never with a value: the loop takes the cooldown
\* path and not the credential stop, in automatic and in manual mode.
CaptchaNeverFalse ==
    (call.fn = "login" /\ call.done /\ call.out.detected) =>
        /\ call.out.kind = "captcha"
        /\ ~LoginFailed(Res(call.out.kind))

\* C28: close() of a session that was never initialised, and close() again
\* after a close() that completed, call nothing on any object, raise no
\* error and leave the fields of the session as they are.
CloseIdempotent ==
    (/\ call.done
     /\ \/ call.fn = "reclose"
        \/ call.fn = "close" /\ call.arg = NewSession) =>
        /\ call.out.actions = <<>>
        /\ ~call.out.raised
        /\ call.out.state = call.arg

\* C29: no handler runs for an update, message or button callback, whose
\* chat is not the admin chat.
AdminOnlyHandlers ==
    (call.fn = "dispatch" /\ call.done /\ call.arg.chat # "admin") =>
        call.out \notin Handlers

\* C30: a check whose login, navigation, listing and filtering went through
\* ends with last_error cleared and consecutive_errors at 0, with or without
\* new slots; and consecutive_errors changes in no other way than to 0 at
\* such an end or at the start of a loop, and by one at a check that failed
\* with a transient error.
StreakCountsFailures ==
    [][/\ \A t \in Tasks :
            (\/ pc[t] = "slots" /\ res[t].kind = "ok" /\ pc'[t] = "after_try"
             \/ pc[t] = "slots_text" /\ pc'[t] # pc[t]) =>
                /\ pc'[t] = "after_try"
                /\ state'.last_error = NoError
                /\ consecutive_errors' = 0
       /\ consecutive_errors' # consecutive_errors =>
            \E t \in Tasks :
                \/ pc[t] = "created" /\ pc'[t] = "top" /\ consecutive_errors' = 0
                \/ pc[t] \in {"slots", "slots_text"} /\ pc'[t] = "after_try"
                      /\ consecutive_errors' = 0
                \/ outcome[t] = "error" /\ pc[t] \in SitePcs /\ pc'[t] = "error_text"
                      /\ consecutive_errors' = consecutive_errors + 1]_vars

\* C31: an iteration that finds the cooldown active changes nothing but time:
\* the counters, last_check_at, last_error, the streak, the fingerprint set,
\* the store and the cooldown stay as they are, nothing is notified, the
\* task sleeps the smaller of its computed delay and the rest of the cooldown,
\* and its wake-up leads back to the loop test with the same frame.
CooldownIterationIdle ==
    [][\A t \in Tasks :
        /\ (/\ pc[t] = "top" /\ pc'[t] # "top" /\ ~stop_event
            /\ captcha_until # None /\ captcha_until[1] > now) =>
                /\ pc'[t] = "cooldown_sleep"
                /\ UNCHANGED <<state, consecutive_errors, known_hashes, captcha_until,
                               cache_file, notes, outcome>>
                /\ \E delta \in Deltas(CheckIntervalVariation) :
                      delay'[t] = NextDelay(CheckInterval, CheckIntervalVariation, delta,
                                            consecutive_errors)
                /\ timer'[t] # None
                /\ timer'[t][1] - now <= delay'[t]
                /\ timer'[t][1] <= captcha_until[1]
                /\ timer'[t][1] - now = delay'[t] \/ timer'[t][1] = captcha_until[1]
        /\ (pc[t] = "cooldown_sleep" /\ pc'[t] # pc[t]) =>
                /\ pc'[t] \in {"top", "cancelled"}
                /\ UNCHANGED <<state, consecutive_errors, known_hashes, captcha_until,
                               cache_file, notes, outcome>>]_vars

\* A task sleeps the rest of the cooldown, which is shorter than its delay.
CooldownRestSlept ==
    \E t \in Tasks :
        /\ pc[t] = "cooldown_sleep"
        /\ timer[t] # None /\ captcha_until # None
        /\ timer[t] = captcha_until
        /\ timer[t][1] < delay[t]
        /\ state.checks_count > 0

\* C32: after a captcha has set the cooldown, the loop task that set it reaches
\* another check (the count goes up and login is called), unless the stop
\* signal is set in the meantime.
CooldownRecovers ==
    \A t \in Tasks :
        (pc[t] = "captcha_text" /\ captcha_until # None /\ captcha_until[1] > now)
            ~> (stop_event \/ pc[t] = "login")

\* The registered loop is at login again after a cooldown that has run out.
CheckedAfterCooldown ==
    \E t \in Tasks :
        /\ pc[t] = "login" /\ task = t /\ ~stop_event
        /\ captcha_until # None /\ captcha_until[1] <= now
        /\ state.checks_count >= 2

\* C33: the delay of a cycle is computed at its start as the jittered delay
\* times min(5, 1 + consecutive_errors), so it is at most 5 * (interval +
\* variation); it is held to the end of the cycle, and it is the time the
\* task sleeps after the cycle.
DelayAmplified ==
    [][\A t \in Tasks :
        /\ (pc[t] = "top" /\ pc'[t] \in {"login", "cooldown_sleep"}) =>
              /\ \E delta \in Deltas(CheckIntervalVariation) :
                    delay'[t] = JitterDelay(CheckInterval, CheckIntervalVariation, delta)
                                  * (IF consecutive_errors >= MaxFactor - 1
                                     THEN MaxFactor ELSE 1 + consecutive_errors)
              /\ delay'[t] <= MaxFactor * (CheckInterval + CheckIntervalVariation)
        /\ pc[t] # "top" => delay'[t] = delay[t]
        /\ (pc[t] = "after_try" /\ pc'[t] = "sleep") =>
              timer'[t] = <<now + delay[t]>>]_vars

\* After six failures in a row the task sleeps five times the longest
\* jittered delay.
LongestDelaySlept ==
    \E t \in Tasks :
        /\ pc[t] = "sleep" /\ timer[t] = <<now + delay[t]>>
        /\ consecutive_errors > MaxFactor
        /\ delay[t] = MaxFactor * (CheckInterval + CheckIntervalVariation)

\* C34: a cycle that found new slots ends with the file holding exactly the
\* fingerprints in memory, and while a loop task is between two cycles, the
\* last of which added nothing, there is no fingerprint in memory that the
\* file does not hold.
PersistedBetweenCycles ==
    \A t \in Tasks :
        /\ (pc[t] = "after_try" /\ outcome[t] = "new") =>
                LoadCache(cache_file) = known_hashes
        /\ (/\ pc[t] \in {"after_try", "sleep", "top", "cooldown_sleep"}
            /\ outcome[t] \in {"nonew", "error", "captcha"}) =>
                known_hashes \subseteq LoadCache(cache_file)

\* C35: once an attempt of login has raised the bot-detection signal, login
\* is not attempted again within the call: the attempt that raised it is the
\* last one made.
DetectionNotRetried ==
    (call.fn = "login" /\ call.done) =>
        \A i \in 1..LoginAttempts :
            (/\ i <= Tries(call.arg[1], call.arg[2], 1)
             /\ LoginOnce(call.arg[1], call.arg[2][i]).kind = "captcha") =>
                i = Tries(call.arg[1], call.arg[2], 1)

\* C36: the wrapper calls the function at least once and at most
\* max(1, attempts) times; every call but the last failed with an exception
\* of the set; a call that returns ends it with the result, a failure outside
\* the set is propagated, a failure at the limit is raised; there is one
\* sleep after each failed call but the last, the i-th of
\* min(max_delay, base_delay * 2^(i-1)).
RetrySchedule ==
    (call.fn = "retry" /\ call.done) =>
        LET attempts == call.arg[1]
            base_delay == call.arg[2]
            max_delay == call.arg[3]
            outs == call.arg[4]
            n == call.out.calls
            limit == IF attempts >= 1 THEN attempts ELSE 1
        IN /\ 1 <= n /\ n <= limit
           /\ \A i \in 1..(n - 1) : outs[i] = "fail"
           /\ outs[n] = "ok" => call.out.end = "returned"
           /\ outs[n] = "other" => call.out.end = "propagated"
           /\ outs[n] = "fail" => (n = limit /\ call.out.end = "raised")
           /\ Len(call.out.sleeps) = n - 1
           /\ \A i \in 1..(n - 1) :
                 call.out.sleeps[i] = IF base_delay * 2^(i - 1) <= max_delay
                                       THEN base_delay * 2^(i - 1) ELSE max_delay

\* C37: whenever no start() and no stop() is in progress, is_running is true
\* exactly when a loop task is alive, and a loop task that is alive is the
\* one the monitor's task handle refers to.
RunningAgrees ==
    (\A c \in Callers : pc[c] = "none") =>
        /\ state.is_running <=> \E t \in Tasks : Alive(t)
        /\ \A t \in Tasks : Alive(t) => task = t

\* C38: a stop() leaves alone the loop task of a start() that ran after the
\* stop() set the stop signal: when the signal has been cleared again by the
\* time stop() reaches wait_for, it does not wait for the registered task;
\* and when it resumes from wait_for while another task than the one it
\* waited for is registered, it changes neither the task handle nor
\* is_running.
StopActsOnItsTask ==
    [][\A c \in Callers :
        /\ (pc[c] = "stop_text" /\ pc'[c] = "stop_wait" /\ ~stop_event) =>
              stop_target'[c] # task
        /\ (/\ pc[c] = "stop_wait" /\ pc'[c] # pc[c]
            /\ task # 0 /\ task # stop_target[c]) =>
              /\ task' = task
              /\ state'.is_running = state.is_running]_vars

\* C39: a slot whose batch was not delivered can still be reported: when a
\* loop task is ended while its slot batch is being sent, no fingerprint of
\* that batch is left in the in-memory set.
UnsentSlotsEligible ==
    [][\A t \in Tasks :
          (pc[t] = "slots_text" /\ pc'[t] \in {"cancelled", "failed"}) =>
              LET batch == notes[t][Len(notes[t])].arg
              IN \A i \in DOMAIN batch : SlotHash(batch[i]) \notin known_hashes']_vars

====
